---- MODULE Spec2Model ----
(***************************************************************************)
(* Model of the kow site glue: the admin authentication gate               *)
(* (src/src/middleware.ts), the data-access facade over the hosted backend *)
(* (src/unnamed/part_000, i.e. lib/supabase) and the booking wizard of     *)
(* src/rewrite.md.  Strings that the code inspects character by character  *)
(* (paths, file names) are sequences of one-character strings.             *)
(***************************************************************************)
EXTENDS Integers, Sequences, FiniteSets, TLC

VARIABLES
    clientSession,  \* the session held in memory by the one shared supabase client
    req,            \* per request: position in onRequest, inputs, locals, outcome
    site_settings,  \* rows of the site_settings table
    lastSet,        \* per key, the value of the latest setSiteSetting that returned
    bookings,       \* rows of the bookings table
    nextId,         \* the next row id the backend hands out
    messages,       \* rows of the messages table
    dbClock,        \* the backend clock that stamps created_at
    feed,           \* the INSERT events on messages, in the order the backend emits them
    sub,            \* per subscriber: its channel and the calls its callback received
    objects,        \* the objects in storage, each a bucket and a key
    pending,        \* the arguments of the uploadImage call about to be made
    page,           \* the booking page: step, hidden elements, inputs, alerts, clock
    subm,           \* per run of the submit handler: position and locals
    env,            \* the execution context and the configured values
    handle,         \* the supabase handle the module exports
    call            \* the facade call made last: arguments and outcome

gateVars == <<clientSession, req>>

settingsVars == <<site_settings, lastSet>>

bookingVars == <<bookings>>

messageVars == <<messages, dbClock, feed, sub>>

storageVars == <<objects, pending>>

wizardVars == <<page, subm>>

clientVars == <<env, handle>>

vars == <<clientSession, req, site_settings, lastSet, bookings, nextId,
          messages, dbClock, feed, sub, objects, pending, page, subm, env, handle, call>>

----------------------------------------------------------------------------
(* Bounds *)

NumReq == 2

----------------------------------------------------------------------------
(* Values *)

Undefined == "<undefined>"

Users == {"alice", "bob"}

NoSession == [user |-> "<null>", access_token |-> "", refresh_token |-> ""]

SessionOf(u) == [user |-> u, access_token |-> "at-" \o u, refresh_token |-> "rt-" \o u]

Truthy(v) == v # Undefined /\ v # ""

AdminPrefix == <<"/", "a", "d", "m", "i", "n">>

LoginPath == <<"/", "a", "d", "m", "i", "n", "/", "l", "o", "g", "i", "n">>

Paths ==
    { <<"/", "b", "o", "o", "k">>,
      AdminPrefix,
      LoginPath,
      LoginPath \o <<"/">>,
      AdminPrefix \o <<"/", "d", "a", "s", "h">>,
      AdminPrefix \o <<"s">> }

AccessCookie == "sb-access-token"

RefreshCookie == "sb-refresh-token"

\* A cookie jar maps the names of the cookies the request carries to values.
Jar(a, r) ==
    [n \in {c \in {AccessCookie} : a # Undefined} \cup
           {c \in {RefreshCookie} : r # Undefined} |->
        IF n = AccessCookie THEN a ELSE r]

CookieJars ==
    { Jar(Undefined, Undefined),
      Jar("at-alice", "rt-alice"),
      Jar("at-bob", "rt-bob"),
      Jar("garbage", "garbage"),
      Jar("at-alice", Undefined),
      Jar("at-alice", "") }

\* cookies.get(name)?.value
CookieValue(jar, name) == IF name \in DOMAIN jar THEN jar[name] ELSE Undefined

\* url.pathname.startsWith(prefix)
StartsWith(s, prefix) ==
    /\ Len(s) >= Len(prefix)
    /\ SubSeq(s, 1, Len(prefix)) = prefix

isAdminPath(path) == StartsWith(path, AdminPrefix)

\* isLoginPage as a prefix test instead of an exact match.
isLoginPagePrefix(path) == StartsWith(path, LoginPath)

isLoginPage(path) == path = LoginPath

\* The tokens the auth service accepts, and the session they stand for.
ValidTokens(a, r) == \E u \in Users : a = "at-" \o u /\ r = "rt-" \o u

TokenSession(a, r) == SessionOf(CHOOSE u \in Users : a = "at-" \o u /\ r = "rt-" \o u)

Requests == 1..NumReq

IdleReq ==
    [pc |-> "idle", path |-> <<>>, cookies |-> Jar(Undefined, Undefined),
     hydrated |-> FALSE, checked |-> FALSE, seen |-> NoSession,
     locals |-> [user |-> Undefined, session |-> NoSession],
     result |-> "none", target |-> <<>>, nextCalls |-> 0]

----------------------------------------------------------------------------
(* The backend as the facade sees it: a row store answering one query *)

NoError == "none"

NotFound == "PGRST116"

OtherError == "FETCH_ERROR"

NoCall == [op |-> "none"]

\* .single(): exactly one row is data, any other count is error PGRST116;
\* a failing backend answers with some other error.
Single(rows, fault) ==
    IF fault THEN [data |-> {}, error |-> OtherError]
    ELSE IF Cardinality(rows) = 1 THEN [data |-> rows, error |-> NoError]
    ELSE [data |-> {}, error |-> NotFound]

NumSubs == 1

Subscribers == 1..NumSubs

NoChannel ==
    [state |-> "none", filter |-> "", since |-> 0, queue |-> <<>>,
     log |-> <<>>, teardowns |-> 0, logAtTeardown |-> <<>>]

NoPending == [op |-> "none"]

MaxSubmits == 2

Submissions == 1..MaxSubmits

EmptyFields ==
    [idea |-> "", placement |-> "", size |-> "", first_name |-> "",
     last_name |-> "", email |-> "", phone |-> ""]

\* The booking page as served: step 1 shown, the messages hidden.
FreshPage ==
    [currentStep |-> 1, hiddenSteps |-> {2, 3, 4},
     hidden |-> {"loading-msg", "success-msg"},
     files |-> <<>>, fields |-> EmptyFields, alerts |-> <<>>, now |-> 0]

IdleSubmit ==
    [pc |-> "idle", formData |-> EmptyFields, files |-> <<>>, i |-> 0,
     fileName |-> <<>>, keys |-> <<>>, uploadedUrls |-> <<>>,
     failures |-> 0, insertError |-> FALSE, inserted |-> {}]

WizardIdle ==
    /\ page = FreshPage
    /\ subm = [k \in Submissions |-> IdleSubmit]

FacadeIdle ==
    /\ WizardIdle
    /\ objects = {}
    /\ pending = NoPending
    /\ messages = {}
    /\ dbClock = 0
    /\ feed = <<>>
    /\ sub = [x \in Subscribers |-> NoChannel]
    /\ site_settings = {}
    /\ lastSet = [k \in {} |-> {}]
    /\ bookings = {}
    /\ nextId = 1
    /\ call = NoCall

----------------------------------------------------------------------------
(* The backend client binding: the module-level code of lib/supabase *)

ConfiguredUrls == {Undefined, "", "https://kow.supabase.co"}

AnonKeys == {Undefined, "", "anon-key"}

ServiceKeys == {Undefined, "", "service-role-key"}

Envs == [SSR : BOOLEAN, url : ConfiguredUrls, anon : AnonKeys, service : ServiceKeys]

\* import.meta.env.X || ""
OrEmpty(v) == IF Truthy(v) THEN v ELSE ""

\* The key chosen without regard to the execution context.
supabaseKeyAnyContext(isServer, serviceKey, anonKey) ==
    IF serviceKey # "" THEN serviceKey ELSE anonKey

\* Lines 10-12: isServer ? supabaseServiceKey || supabaseAnonKey : supabaseAnonKey
supabaseKey(isServer, serviceKey, anonKey) ==
    IF isServer
    THEN IF serviceKey # "" THEN serviceKey ELSE anonKey
    ELSE anonKey

PlaceholderUrl == "https://placeholder.supabase.co"

PlaceholderKey == "placeholder-key"

\* Lines 3-33: the handle the module builds from its environment.
createSupabase(e) ==
    LET supabaseUrl == OrEmpty(e.url)
        key == supabaseKey(e.SSR, OrEmpty(e.service), OrEmpty(e.anon))
    IN IF supabaseUrl # "" /\ key # ""
       THEN [built |-> TRUE, url |-> supabaseUrl, key |-> key,
             persistSession |-> {~e.SSR}, autoRefreshToken |-> {~e.SSR},
             detectSessionInUrl |-> {~e.SSR}, warned |-> FALSE]
       ELSE [built |-> TRUE, url |-> PlaceholderUrl, key |-> PlaceholderKey,
             persistSession |-> {}, autoRefreshToken |-> {},
             detectSessionInUrl |-> {}, warned |-> e.SSR]

NoHandle ==
    [built |-> FALSE, url |-> "", key |-> "", persistSession |-> {},
     autoRefreshToken |-> {}, detectSessionInUrl |-> {}, warned |-> FALSE]

\* The deployed server: everything configured, the module evaluated.
ServerEnv ==
    [SSR |-> TRUE, url |-> "https://kow.supabase.co", anon |-> "anon-key",
     service |-> "service-role-key"]

ClientIdle ==
    /\ env = ServerEnv
    /\ handle = createSupabase(ServerEnv)

----------------------------------------------------------------------------
(* The authentication gate: onRequest, split at its await points *)

GateIdle ==
    /\ clientSession = NoSession
    /\ req = [r \in Requests |-> IdleReq]

\* Receive with the cookies read on admin paths only.
ReceiveAdminOnly(r) ==
    /\ req[r].pc = "idle"
    /\ \E path \in Paths, jar \in CookieJars :
         LET accessToken == CookieValue(jar, AccessCookie)
             refreshToken == CookieValue(jar, RefreshCookie)
         IN req' = [req EXCEPT ![r].path = path, ![r].cookies = jar,
                               ![r].pc = IF /\ isAdminPath(path)
                                            /\ Truthy(accessToken)
                                            /\ Truthy(refreshToken)
                                         THEN "setSession" ELSE "gate"]
    /\ UNCHANGED clientSession

\* A request arrives; lines 11-18: the path tests and the cookie reads.
Receive(r) ==
    /\ req[r].pc = "idle"
    /\ \E path \in Paths, jar \in CookieJars :
         LET accessToken == CookieValue(jar, AccessCookie)
             refreshToken == CookieValue(jar, RefreshCookie)
         IN req' = [req EXCEPT ![r].path = path, ![r].cookies = jar,
                               ![r].pc = IF Truthy(accessToken) /\ Truthy(refreshToken)
                                         THEN "setSession" ELSE "gate"]
    /\ UNCHANGED clientSession

\* supabase.auth.setSession resolves (lines 19-22).  Accepted tokens become
\* the client's current session; rejected ones leave it or clear it.
SetSession(r) ==
    /\ req[r].pc = "setSession"
    /\ LET a == CookieValue(req[r].cookies, AccessCookie)
           f == CookieValue(req[r].cookies, RefreshCookie)
       IN IF ValidTokens(a, f)
          THEN clientSession' = TokenSession(a, f)
          ELSE clientSession' \in {clientSession, NoSession}
    /\ req' = [req EXCEPT ![r].pc = "gate", ![r].hydrated = TRUE]

\* GateStep with the redirect lost: the handler runs without a session.
GateStepFallThrough(rq, session) ==
    IF isAdminPath(rq.path) /\ ~isLoginPage(rq.path)
    THEN [rq EXCEPT !.pc = "done", !.checked = TRUE, !.seen = session,
                    !.locals = [user |-> session.user, session |-> session],
                    !.result = "next", !.nextCalls = @ + 1]
    ELSE [rq EXCEPT !.pc = "done", !.result = "next", !.nextCalls = @ + 1]

\* Lines 26-43: the session query on a gated path, then redirect or next().
GateStep(rq, session) ==
    IF isAdminPath(rq.path) /\ ~isLoginPage(rq.path)
    THEN IF session = NoSession
         THEN [rq EXCEPT !.pc = "done", !.checked = TRUE, !.seen = session,
                         !.result = "redirect", !.target = LoginPath]
         ELSE [rq EXCEPT !.pc = "done", !.checked = TRUE, !.seen = session,
                         !.locals = [user |-> session.user, session |-> session],
                         !.result = "next", !.nextCalls = @ + 1]
    ELSE [rq EXCEPT !.pc = "done", !.result = "next", !.nextCalls = @ + 1]

Gate(r) ==
    /\ req[r].pc = "gate"
    /\ req' = [req EXCEPT ![r] = GateStep(req[r], clientSession)]
    /\ UNCHANGED clientSession

GateInit == GateIdle /\ ClientIdle /\ FacadeIdle

GateNext ==
    /\ \E r \in Requests : Receive(r) \/ SetSession(r) \/ Gate(r)
    /\ UNCHANGED <<clientVars, settingsVars, bookingVars, messageVars, storageVars,
                   wizardVars, nextId, call>>

SpecGate == GateInit /\ [][GateNext]_vars

----------------------------------------------------------------------------
(* Site settings: getSiteSetting, setSiteSetting *)

SettingKeys == {"contact_info", "policy_text"}

SettingValues == {"", "open 9-5", "cash only"}

Times == {0, 7}

\* What the table may hold before this process touches it.
InitialSettings ==
    { {},
      {[id |-> 1, key |-> "policy_text", value |-> "18+", created_at |-> 0]} }

\* A plain insert: a second row for a key that is already there.
InsertSetting(table, id, row) ==
    table \cup {[id |-> id, key |-> row.key, value |-> row.value,
                 created_at |-> row.created_at]}

\* upsert(row, { onConflict: "key" }): the row with that key takes the given
\* columns, or a new row is inserted.
Upsert(table, id, row) ==
    IF \E r \in table : r.key = row.key
    THEN {IF r.key = row.key
          THEN [r EXCEPT !.value = row.value, !.created_at = row.created_at]
          ELSE r : r \in table}
    ELSE table \cup {[id |-> id, key |-> row.key, value |-> row.value,
                      created_at |-> row.created_at]}

\* Lines 175-179.  A result is a set: {} is null, {v} is the value v.
getSiteSettingResult(resp) ==
    IF resp.error # NoError
    THEN IF resp.error = NotFound
         THEN [threw |-> FALSE, result |-> {}]
         ELSE [threw |-> TRUE, result |-> {}]
    ELSE [threw |-> FALSE, result |-> {r.value : r \in resp.data}]

getSiteSetting(key, fault) ==
    LET resp == Single({r \in site_settings : r.key = key}, fault)
        out == getSiteSettingResult(resp)
    IN /\ call' = [op |-> "getSiteSetting", key |-> key, fault |-> fault,
                   threw |-> out.threw, result |-> out.result]
       /\ UNCHANGED <<site_settings, lastSet, nextId>>

setSiteSetting(key, value, now, fault) ==
    LET table == IF fault THEN site_settings
                 ELSE Upsert(site_settings, nextId,
                             [key |-> key, value |-> value, created_at |-> now])
        resp == Single({r \in table : r.key = key}, fault)
    IN /\ site_settings' = table
       /\ nextId' = IF Cardinality(table) > Cardinality(site_settings)
                    THEN nextId + 1 ELSE nextId
       /\ lastSet' = IF resp.error # NoError THEN lastSet
                     ELSE [k \in DOMAIN lastSet \cup {key} |->
                              IF k = key THEN {value} ELSE lastSet[k]]
       /\ call' = [op |-> "setSiteSetting", key |-> key, fault |-> fault,
                   threw |-> resp.error # NoError, result |-> resp.data]

SettingsInit ==
    /\ GateIdle
    /\ ClientIdle
    /\ WizardIdle
    /\ objects = {}
    /\ pending = NoPending
    /\ messages = {}
    /\ dbClock = 0
    /\ feed = <<>>
    /\ sub = [x \in Subscribers |-> NoChannel]
    /\ site_settings \in InitialSettings
    /\ lastSet = [k \in {} |-> {}]
    /\ bookings = {}
    /\ nextId = 2
    /\ call = NoCall

SettingsNext ==
    /\ \/ \E k \in SettingKeys, fault \in BOOLEAN : getSiteSetting(k, fault)
       \/ \E k \in SettingKeys, v \in SettingValues, t \in Times, fault \in BOOLEAN :
              setSiteSetting(k, v, t, fault)
    /\ UNCHANGED <<gateVars, clientVars, bookingVars, messageVars, storageVars, wizardVars>>

SpecSettings == SettingsInit /\ [][SettingsNext]_vars

----------------------------------------------------------------------------
(* Bookings: insert, updateBooking, getBookingById, getBookingByToken *)

MaxBookings == 2

NoToken == "<null>"

ClientTokens == {"tok-1", "tok-2"}

BookingStatuses == {"pending", "accepted", "denied"}

BookingIds == 1..(MaxBookings + 1)

\* The partial field sets updateBooking is called with.
BookingUpdates ==
    [client_access_token : ClientTokens] \cup [status : BookingStatuses]

\* A booking request arrives (the row the booking form inserts).
insertBooking(fault) ==
    /\ Cardinality(bookings) < MaxBookings
    /\ bookings' = IF fault THEN bookings
                   ELSE bookings \cup {[id |-> nextId, status |-> "pending",
                                        client_access_token |-> NoToken]}
    /\ nextId' = IF fault THEN nextId ELSE nextId + 1
    /\ call' = [op |-> "insertBooking", fault |-> fault, threw |-> fault]

\* update(updates).eq("id", id): the given columns of the rows with that id.
ApplyUpdate(row, updates) ==
    [f \in DOMAIN row |-> IF f \in DOMAIN updates THEN updates[f] ELSE row[f]]

updateBooking(id, updates, fault) ==
    LET table == IF fault THEN bookings
                 ELSE {IF r.id = id THEN ApplyUpdate(r, updates) ELSE r : r \in bookings}
        resp == Single({r \in table : r.id = id}, fault)
    IN /\ bookings' = table
       /\ call' = [op |-> "updateBooking", id |-> id, fault |-> fault,
                   threw |-> resp.error # NoError, result |-> resp.data]
       /\ UNCHANGED nextId

\* getBookingByToken without the not-found case: absence is thrown.
getBookingByTokenThrowing(resp) ==
    IF resp.error # NoError
    THEN [threw |-> TRUE, result |-> {}]
    ELSE [threw |-> FALSE, result |-> resp.data]

\* Lines 230-231.
getBookingByIdResult(resp) ==
    IF resp.error # NoError
    THEN [threw |-> TRUE, result |-> {}]
    ELSE [threw |-> FALSE, result |-> resp.data]

\* Lines 241-245.
getBookingByTokenResult(resp) ==
    IF resp.error # NoError
    THEN IF resp.error = NotFound
         THEN [threw |-> FALSE, result |-> {}]
         ELSE [threw |-> TRUE, result |-> {}]
    ELSE [threw |-> FALSE, result |-> resp.data]

getBookingById(id, fault) ==
    LET out == getBookingByIdResult(Single({r \in bookings : r.id = id}, fault))
    IN /\ call' = [op |-> "getBookingById", id |-> id, fault |-> fault,
                   threw |-> out.threw, result |-> out.result]
       /\ UNCHANGED <<bookings, nextId>>

getBookingByToken(token, fault) ==
    LET out == getBookingByTokenResult(
                   Single({r \in bookings : r.client_access_token = token}, fault))
    IN /\ call' = [op |-> "getBookingByToken", token |-> token, fault |-> fault,
                   threw |-> out.threw, result |-> out.result]
       /\ UNCHANGED <<bookings, nextId>>

BookingsInit == GateIdle /\ ClientIdle /\ FacadeIdle

BookingsNext ==
    /\ \/ \E fault \in BOOLEAN : insertBooking(fault)
       \/ \E id \in BookingIds, u \in BookingUpdates, fault \in BOOLEAN :
              updateBooking(id, u, fault)
       \/ \E id \in BookingIds, fault \in BOOLEAN : getBookingById(id, fault)
       \/ \E t \in ClientTokens, fault \in BOOLEAN : getBookingByToken(t, fault)
    /\ UNCHANGED <<gateVars, clientVars, settingsVars, messageVars, storageVars, wizardVars>>

SpecBookings == BookingsInit /\ [][BookingsNext]_vars

----------------------------------------------------------------------------
(* Messages: getMessages, sendMessage, subscribeToMessages *)

MaxMessages == 3

MaxTeardowns == 2

MaxClockStep == 1

MessageBookings == {"b1", "b2"}

SenderRoles == {"admin", "client"}

Contents == {"hi"}

\* .eq("booking_id", bookingId)
MessagesOf(bookingId) == {m \in messages : m.booking_id = bookingId}

\* order("created_at", { ascending: false }) instead of ascending.
RECURSIVE OrderByCreatedAtDesc(_)
OrderByCreatedAtDesc(rows) ==
    IF rows = {} THEN {<<>>}
    ELSE UNION { {<<m>> \o t : t \in OrderByCreatedAtDesc(rows \ {m})} :
                 m \in {x \in rows : \A y \in rows : x.created_at >= y.created_at} }

\* order("created_at", { ascending: true }): every listing of the rows in
\* which created_at never decreases (rows with equal stamps in any order).
RECURSIVE OrderByCreatedAt(_)
OrderByCreatedAt(rows) ==
    IF rows = {} THEN {<<>>}
    ELSE UNION { {<<m>> \o t : t \in OrderByCreatedAt(rows \ {m})} :
                 m \in {x \in rows : \A y \in rows : x.created_at <= y.created_at} }

getMessages(bookingId, fault) ==
    /\ \E data \in OrderByCreatedAt(MessagesOf(bookingId)) :
          call' = [op |-> "getMessages", booking |-> bookingId, fault |-> fault,
                   threw |-> fault, result |-> IF fault THEN <<>> ELSE data]
    /\ UNCHANGED <<messages, dbClock, feed, sub, nextId>>

\* The filter of the channel, `booking_id=eq.${bookingId}`.
ChannelFilter(bookingId) == "booking_id=eq." \o bookingId

\* Channel without a filter: every insert on messages matches.
MatchesAny(filter, row) == TRUE

\* The backend's test of an inserted row against a channel's filter.
Matches(filter, row) == filter = "booking_id=eq." \o row.booking_id

\* The backend queues the INSERT event on every joined channel it matches.
Publish(channels, row) ==
    [x \in DOMAIN channels |->
        IF channels[x].state = "joined" /\ Matches(channels[x].filter, row)
        THEN [channels[x] EXCEPT !.queue = Append(@, row)]
        ELSE channels[x]]

sendMessage(bookingId, senderRole, content, step, fault) ==
    /\ Cardinality(messages) < MaxMessages
    /\ LET row == [id |-> nextId, created_at |-> dbClock + step,
                   booking_id |-> bookingId, sender_role |-> senderRole,
                   content |-> content]
       IN IF fault
          THEN /\ call' = [op |-> "sendMessage", booking |-> bookingId,
                           role |-> senderRole, content |-> content,
                           fault |-> fault, threw |-> TRUE, result |-> {}]
               /\ UNCHANGED <<messages, dbClock, feed, sub, nextId>>
          ELSE /\ messages' = messages \cup {row}
               /\ dbClock' = dbClock + step
               /\ nextId' = nextId + 1
               /\ feed' = Append(feed, row)
               /\ sub' = Publish(sub, row)
               /\ call' = [op |-> "sendMessage", booking |-> bookingId,
                           role |-> senderRole, content |-> content,
                           fault |-> fault, threw |-> FALSE, result |-> {row}]

\* Lines 323-337: open the channel for one booking and subscribe.
subscribeToMessages(x, bookingId) ==
    /\ sub[x].state = "none"
    /\ sub' = [sub EXCEPT ![x] = [NoChannel EXCEPT !.state = "joined",
                                     !.filter = ChannelFilter(bookingId),
                                     !.since = Len(feed)]]
    /\ call' = [op |-> "subscribeToMessages", booking |-> bookingId]
    /\ UNCHANGED <<messages, dbClock, feed, nextId>>

\* Lines 333-335: an event reaches the channel, callback(payload.new).
deliver(x) ==
    /\ sub[x].state = "joined"
    /\ sub[x].queue # <<>>
    /\ sub' = [sub EXCEPT ![x].log = Append(@, Head(sub[x].queue)),
                          ![x].queue = Tail(@)]
    /\ UNCHANGED <<messages, dbClock, feed, nextId, call>>

\* A teardown that leaves the channel open.
keepChannel(channel) == channel

\* supabase.removeChannel(channel): the channel is closed and what was on
\* its way is dropped; removing a closed channel changes nothing.
removeChannel(channel) == [channel EXCEPT !.state = "removed", !.queue = <<>>]

\* Lines 339-341: the function subscribeToMessages returned is called.
unsubscribe(x) ==
    /\ sub[x].state # "none"
    /\ sub[x].teardowns < MaxTeardowns
    /\ sub' = [sub EXCEPT ![x] =
                  [removeChannel(sub[x]) EXCEPT
                      !.teardowns = @ + 1,
                      !.logAtTeardown = IF sub[x].teardowns = 0
                                        THEN sub[x].log ELSE @]]
    /\ UNCHANGED <<messages, dbClock, feed, nextId, call>>

MessagesInit == GateIdle /\ ClientIdle /\ FacadeIdle

MessagesNext ==
    /\ \/ \E b \in MessageBookings, fault \in BOOLEAN : getMessages(b, fault)
       \/ \E b \in MessageBookings, role \in SenderRoles, c \in Contents,
             step \in 1..MaxClockStep, fault \in BOOLEAN :
              sendMessage(b, role, c, step, fault)
       \/ \E x \in Subscribers, b \in MessageBookings : subscribeToMessages(x, b)
       \/ \E x \in Subscribers : deliver(x)
       \/ \E x \in Subscribers : unsubscribe(x)
    /\ UNCHANGED <<gateVars, clientVars, settingsVars, bookingVars, storageVars, wizardVars>>

SpecMessages == MessagesInit /\ [][MessagesNext]_vars

----------------------------------------------------------------------------
(* Storage: uploadImage *)

MaxNameLen == 2

LowerCase ==
    {"a", "b", "c", "d", "e", "f", "g", "h", "i", "j", "k", "l", "m",
     "n", "o", "p", "q", "r", "s", "t", "u", "v", "w", "x", "y", "z"}

UpperCase ==
    {"A", "B", "C", "D", "E", "F", "G", "H", "I", "J", "K", "L", "M",
     "N", "O", "P", "Q", "R", "S", "T", "U", "V", "W", "X", "Y", "Z"}

DigitChars == <<"0", "1", "2", "3", "4", "5", "6", "7", "8", "9">>

Digits == {DigitChars[i] : i \in DOMAIN DigitChars}

\* `${n}` of a non-negative integer: its decimal digits.
RECURSIVE ToDecimal(_)
ToDecimal(n) ==
    IF n < 10 THEN <<DigitChars[n + 1]>>
    ELSE ToDecimal(n \div 10) \o <<DigitChars[(n % 10) + 1]>>

\* replace(/[^a-zA-Z0-9]/g, ""): the dot is removed as well.
RECURSIVE StripNonAlnum(_)
StripNonAlnum(name) ==
    IF name = <<>> THEN <<>>
    ELSE (IF Head(name) \in LowerCase \cup UpperCase \cup Digits
          THEN <<Head(name)>> ELSE <<>>) \o StripNonAlnum(Tail(name))

\* The file name with the dot taken for a character to remove.
RECURSIVE SanitizeNoDot(_)
SanitizeNoDot(name) ==
    IF name = <<>> THEN <<>>
    ELSE (IF Head(name) \in LowerCase \cup UpperCase \cup Digits
          THEN <<Head(name)>> ELSE <<>>) \o SanitizeNoDot(Tail(name))

\* file.name.replace(/[^a-zA-Z0-9.]/g, "")
RECURSIVE Sanitize(_)
Sanitize(name) ==
    IF name = <<>> THEN <<>>
    ELSE (IF Head(name) \in LowerCase \cup UpperCase \cup Digits \cup {"."}
          THEN <<Head(name)>> ELSE <<>>) \o Sanitize(Tail(name))

\* path || `${Date.now()}-${...}`: a path that is undefined or "" is falsy.
FileNameFor(path, now, name) ==
    IF path.given /\ path.value # <<>> THEN path.value
    ELSE ToDecimal(now) \o <<"-">> \o Sanitize(name)

NameAlphabet == {"a", "Z", "1", ".", " ", "#", "-", "_"}

ExampleName ==
    <<"M", "y", " ", "P", "h", "o", "t", "o", " ", "#", "1", ".", "p", "n", "g">>

FileNames ==
    UNION {[1..n -> NameAlphabet] : n \in 0..MaxNameLen} \cup {ExampleName}

NoPath == [given |-> FALSE, value |-> <<>>]

PathArgs ==
    { NoPath,
      [given |-> TRUE, value |-> <<>>],
      [given |-> TRUE, value |-> <<"d", "/", "a", " ", "#", ".", "p", "n", "g">>] }

UploadTimes == {0, 1705}

Buckets == {"content-images", "reference-photos"}

PublicBase == "https://project.supabase.co/storage/v1/object/public/"

\* storage.from(bucket).getPublicUrl(fileName)
PublicUrl(bucket, fileName) == <<PublicBase, bucket, "/">> \o fileName

\* storage.from(bucket).upload(fileName, file): refused when the backend
\* fails or the key is taken.
UploadError(store, bucket, fileName, fault) ==
    fault \/ [bucket |-> bucket, key |-> fileName] \in store

uploadImage(fault) ==
    /\ pending.op = "uploadImage"
    /\ LET fileName == FileNameFor(pending.path, pending.now, pending.name)
           failed == UploadError(objects, pending.bucket, fileName, fault)
       IN /\ objects' = IF failed THEN objects
                        ELSE objects \cup {[bucket |-> pending.bucket, key |-> fileName]}
          /\ call' = [op |-> "uploadImage", bucket |-> pending.bucket,
                      name |-> pending.name, path |-> pending.path,
                      now |-> pending.now, fault |-> fault, fileName |-> fileName,
                      threw |-> failed,
                      result |-> IF failed THEN {}
                                 ELSE {[path |-> fileName,
                                        publicUrl |-> PublicUrl(pending.bucket, fileName)]}]
    /\ pending' = NoPending
    /\ UNCHANGED nextId

UploadInit ==
    /\ GateIdle
    /\ ClientIdle
    /\ WizardIdle
    /\ site_settings = {}
    /\ lastSet = [k \in {} |-> {}]
    /\ bookings = {}
    /\ nextId = 1
    /\ messages = {}
    /\ dbClock = 0
    /\ feed = <<>>
    /\ sub = [x \in Subscribers |-> NoChannel]
    /\ call = NoCall
    /\ objects \in {{}, {[bucket |-> "content-images", key |-> <<"0", "-", "a">>]}}
    /\ pending \in [op : {"uploadImage"}, bucket : Buckets, name : FileNames,
                    path : PathArgs, now : UploadTimes]

UploadNext ==
    /\ \E fault \in BOOLEAN : uploadImage(fault)
    /\ UNCHANGED <<gateVars, clientVars, settingsVars, bookingVars, messageVars, wizardVars>>

SpecUpload == UploadInit /\ [][UploadNext]_vars

----------------------------------------------------------------------------
(* The booking wizard of src/rewrite.md: navigation and the submit handler *)

MaxNow == 0

PhotoBucket == "reference-photos"

FormEntries ==
    { [idea |-> "sleeve concept", placement |-> "forearm", size |-> "3-5 inches",
       first_name |-> "Ada", last_name |-> "Lovelace",
       email |-> "ada@example.org", phone |-> "555-0100"] }

PhotoA == <<"a", ".", "p">>

PhotoB == <<"b", " ", "c">>

\* What the file input may hold: none, one or two files, in either order.
Selections ==
    { <<>>, <<PhotoA>>, <<PhotoA, PhotoB>>, <<PhotoB, PhotoA>>, <<PhotoA, PhotoA>> }

\* The step left is not hidden.
KeepStep(hiddenSteps, n) == hiddenSteps

\* querySelector(`[data-step="${n}"]`)?.classList.add('hidden')
HideStep(hiddenSteps, n) == IF n \in 1..4 THEN hiddenSteps \cup {n} ELSE hiddenSteps

\* querySelector(`[data-step="${n}"]`)?.classList.remove('hidden')
ShowStep(hiddenSteps, n) == hiddenSteps \ {n}

FormShown == "booking-form" \notin page.hidden

\* A step's controls can be used when the step and the form are shown.
StepShown(n) == FormShown /\ n \notin page.hiddenSteps

\* Lines 437-444: a click on the Next button of a shown step (steps 1-3).
clickNext ==
    /\ \E n \in 1..3 : StepShown(n)
    /\ page' = [page EXCEPT
                  !.currentStep = @ + 1,
                  !.hiddenSteps = ShowStep(HideStep(@, page.currentStep),
                                           page.currentStep + 1)]
    /\ UNCHANGED <<subm, objects, bookings, nextId, call>>

\* Lines 446-452: a click on the Back button of a shown step (steps 2-4).
clickPrev ==
    /\ \E n \in 2..4 : StepShown(n)
    /\ page' = [page EXCEPT
                  !.currentStep = @ - 1,
                  !.hiddenSteps = ShowStep(HideStep(@, page.currentStep),
                                           page.currentStep - 1)]
    /\ UNCHANGED <<subm, objects, bookings, nextId, call>>

\* The user fills the inputs of the form.
fillFields(entry) ==
    /\ FormShown
    /\ page.fields = EmptyFields
    /\ page' = [page EXCEPT !.fields = entry]
    /\ UNCHANGED <<subm, objects, bookings, nextId, call>>

\* The user picks files in the file input of step 3.
selectFiles(selection) ==
    /\ StepShown(3)
    /\ page.files # selection
    /\ page' = [page EXCEPT !.files = selection]
    /\ UNCHANGED <<subm, objects, bookings, nextId, call>>

\* Line 467: `${Date.now()}-${file.name.replace(/[^a-zA-Z0-9]/g, '')}`
WizardFileName(now, name) == ToDecimal(now) \o <<"-">> \o StripNonAlnum(name)

\* Lines 456-467: the submit event (the required inputs are filled), up to
\* the first await: the upload of the first file, or the insert.
submit(k, t) ==
    /\ subm[k].pc = "idle"
    /\ StepShown(4)
    /\ page.fields # EmptyFields
    /\ t >= page.now
    /\ page' = [page EXCEPT !.hidden = @ \ {"loading-msg"},
                            !.now = IF page.files = <<>> THEN @ ELSE t]
    /\ subm' = [subm EXCEPT ![k] =
                  IF page.files = <<>>
                  THEN [IdleSubmit EXCEPT !.pc = "insert", !.formData = page.fields]
                  ELSE [IdleSubmit EXCEPT
                           !.pc = "upload", !.formData = page.fields,
                           !.files = page.files, !.i = 1,
                           !.fileName = WizardFileName(t, page.files[1]),
                           !.keys = <<WizardFileName(t, page.files[1])>>]]
    /\ UNCHANGED <<objects, bookings, nextId, call>>

\* uploadedUrls with the URLs in reverse order of upload.
CollectFront(urls, failed, url) == IF failed THEN urls ELSE <<url>> \o urls

\* Lines 472-477: the URL is pushed when the upload returned data.
Collect(urls, failed, url) == IF failed THEN urls ELSE Append(urls, url)

\* Lines 468-478: an upload returns; the next file's upload or the insert
\* is started.
uploadDone(k, fault, t) ==
    /\ subm[k].pc = "upload"
    /\ t >= page.now
    /\ LET me == subm[k]
           failed == UploadError(objects, PhotoBucket, me.fileName, fault)
           urls == Collect(me.uploadedUrls, failed, PublicUrl(PhotoBucket, me.fileName))
           more == me.i < Len(me.files)
       IN /\ objects' = IF failed THEN objects
                        ELSE objects \cup {[bucket |-> PhotoBucket, key |-> me.fileName]}
          /\ subm' = [subm EXCEPT ![k] =
                        IF more
                        THEN [me EXCEPT
                                 !.uploadedUrls = urls,
                                 !.failures = IF failed THEN @ + 1 ELSE @,
                                 !.i = @ + 1,
                                 !.fileName = WizardFileName(t, me.files[me.i + 1]),
                                 !.keys = Append(@, WizardFileName(t, me.files[me.i + 1]))]
                        ELSE [me EXCEPT
                                 !.uploadedUrls = urls,
                                 !.failures = IF failed THEN @ + 1 ELSE @,
                                 !.pc = "insert"]]
          /\ page' = [page EXCEPT !.now = IF more THEN t ELSE @]
    /\ UNCHANGED <<bookings, nextId, call>>

\* Lines 482-493: the row the handler inserts.
BookingRow(id, formData, urls) ==
    [id |-> id,
     first_name |-> formData.first_name,
     last_name |-> formData.last_name,
     email |-> formData.email,
     phone |-> formData.phone,
     tattoo_idea |-> formData.idea,
     tattoo_placement |-> formData.placement,
     tattoo_size |-> formData.size,
     is_custom |-> TRUE,
     reference_photos |-> urls,
     status |-> "pending",
     client_access_token |-> NoToken]

\* Lines 482-502: the insert returns; the messages are switched.
insertDone(k, fault) ==
    /\ subm[k].pc = "insert"
    /\ bookings' = IF fault THEN bookings
                   ELSE bookings \cup {BookingRow(nextId, subm[k].formData,
                                                  subm[k].uploadedUrls)}
    /\ nextId' = IF fault THEN nextId ELSE nextId + 1
    /\ subm' = [subm EXCEPT ![k].pc = "done", ![k].insertError = fault,
                            ![k].inserted = IF fault THEN @ ELSE @ \cup {nextId}]
    /\ page' = [page EXCEPT
                  !.hidden = IF fault THEN @ \cup {"loading-msg"}
                             ELSE ((@ \cup {"loading-msg"}) \cup {"booking-form"})
                                      \ {"success-msg"},
                  !.alerts = IF fault
                             THEN Append(@, "Error submitting booking: " \o OtherError)
                             ELSE @]
    /\ UNCHANGED <<objects, call>>

WizardInit == GateIdle /\ ClientIdle /\ FacadeIdle

WizardNext ==
    /\ \/ clickNext
       \/ clickPrev
       \/ \E e \in FormEntries : fillFields(e)
       \/ \E f \in Selections : selectFiles(f)
       \/ \E k \in Submissions, t \in 0..MaxNow : submit(k, t)
       \/ \E k \in Submissions, fault \in BOOLEAN, t \in 0..MaxNow : uploadDone(k, fault, t)
       \/ \E k \in Submissions, fault \in BOOLEAN : insertDone(k, fault)
    /\ UNCHANGED <<gateVars, clientVars, settingsVars, messageVars, pending>>

SpecWizard == WizardInit /\ [][WizardNext]_vars

----------------------------------------------------------------------------
(* The module of lib/supabase is evaluated in some environment *)

ClientInit ==
    /\ GateIdle
    /\ FacadeIdle
    /\ env \in Envs
    /\ handle = NoHandle

\* The import of the module: lines 3-33 run once.
evaluateModule ==
    /\ ~handle.built
    /\ handle' = createSupabase(env)
    /\ UNCHANGED env

ClientNext ==
    /\ evaluateModule
    /\ UNCHANGED <<gateVars, settingsVars, bookingVars, messageVars, storageVars,
                   wizardVars, nextId, call>>

SpecClient == ClientInit /\ [][ClientNext]_vars

Done(r) == req[r].pc = "done"

Protected(path) == StartsWith(path, AdminPrefix) /\ path # LoginPath

----------------------------------------------------------------------------
(* Claims about the gate *)

\* C1: on a path under /admin other than /admin/login, a session query that
\* yields no session ends the request with a redirect to /admin/login, and
\* next() is not invoked for it.
C1_NoSessionRedirects ==
    \A r \in Requests :
        (Done(r) /\ Protected(req[r].path) /\ req[r].seen = NoSession)
            => /\ req[r].checked
               /\ req[r].result = "redirect"
               /\ req[r].target = LoginPath
               /\ req[r].nextCalls = 0

C1_Witness ==
    \E r \in Requests :
        /\ Done(r) /\ Protected(req[r].path) /\ req[r].checked
        /\ req[r].seen = NoSession /\ req[r].result = "redirect"

\* C2: the gate keeps no state across requests: a request to a protected
\* path that carries no session cookies is redirected to /admin/login,
\* whatever other requests of the same process carried.
C2_NoCookiesRedirected ==
    \A r \in Requests :
        (Done(r) /\ Protected(req[r].path) /\ DOMAIN req[r].cookies = {})
            => req[r].result = "redirect" /\ req[r].target = LoginPath

\* C3: a request for exactly /admin/login always reaches next() and is
\* never redirected nor session-checked; every other path that starts with
\* /admin is session-checked, and no path outside /admin is.
C3_LoginExempt ==
    \A r \in Requests :
        Done(r) =>
            /\ req[r].path = LoginPath =>
                   req[r].result = "next" /\ req[r].nextCalls = 1
            /\ req[r].checked <=> Protected(req[r].path)

C3_Witness ==
    /\ \E r \in Requests :
          /\ Done(r) /\ req[r].path = LoginPath /\ req[r].result = "next"
          /\ DOMAIN req[r].cookies = {}
    /\ \E r \in Requests :
          /\ Done(r) /\ req[r].path = LoginPath \o <<"/">>
          /\ req[r].result = "redirect"

\* C4: a request to a protected path with valid access and refresh cookies
\* has locals.user and locals.session set to the identity and session of
\* its own cookies and reaches next(); a redirected request has no locals.
C4_LocalsFromOwnCookies ==
    \A r \in Requests :
        Done(r) =>
            /\ LET a == CookieValue(req[r].cookies, AccessCookie)
                   f == CookieValue(req[r].cookies, RefreshCookie)
               IN (Protected(req[r].path) /\ ValidTokens(a, f)) =>
                     /\ req[r].result = "next"
                     /\ req[r].locals.session = TokenSession(a, f)
                     /\ req[r].locals.user = TokenSession(a, f).user
            /\ req[r].result = "redirect" => req[r].locals = IdleReq.locals

----------------------------------------------------------------------------
(* Claims about the facade *)

RowsWithKey(k) == {r \in site_settings : r.key = k}

\* C5: getSiteSetting(k) answered by the backend returns null, without
\* throwing, when no row has key k and that row's value otherwise; the
\* value read for k is that of the latest setSiteSetting(k, v) that
\* returned; no key ever has more than one row.
C5_SettingsReadYourWrite ==
    /\ \A k \in SettingKeys : Cardinality(RowsWithKey(k)) <= 1
    /\ (call.op = "getSiteSetting" /\ ~call.fault) =>
          /\ ~call.threw
          /\ RowsWithKey(call.key) = {} => call.result = {}
          /\ \A r \in RowsWithKey(call.key) : call.result = {r.value}
          /\ call.key \in DOMAIN lastSet => call.result = lastSet[call.key]
    /\ (call.op = "setSiteSetting" /\ ~call.threw) =>
          \A r \in call.result : r \in site_settings /\ {r.value} = lastSet[call.key]

C5_Witness ==
    /\ call.op = "getSiteSetting" /\ ~call.fault
    /\ call.key = "policy_text"
    /\ call.result = {""}
    /\ lastSet["policy_text"] = {""}
    /\ "contact_info" \in DOMAIN lastSet

RowsWithToken(t) == {r \in bookings : r.client_access_token = t}

RowsWithId(id) == {r \in bookings : r.id = id}

\* C6: getBookingByToken(t) returns null without throwing when no booking
\* has token t and returns the booking when one has it; getBookingById(id)
\* throws when no booking has that id and returns the booking otherwise;
\* both throw on any backend error other than not-found.
C6_LookupAsymmetry ==
    /\ call.op = "getBookingByToken" =>
          /\ call.fault => call.threw
          /\ (~call.fault /\ RowsWithToken(call.token) = {}) =>
                 ~call.threw /\ call.result = {}
          /\ (~call.fault /\ Cardinality(RowsWithToken(call.token)) = 1) =>
                 ~call.threw /\ call.result = RowsWithToken(call.token)
    /\ call.op = "getBookingById" =>
          /\ call.fault => call.threw
          /\ (~call.fault /\ RowsWithId(call.id) = {}) => call.threw
          /\ (~call.fault /\ RowsWithId(call.id) # {}) =>
                 ~call.threw /\ call.result = RowsWithId(call.id)
                 /\ Cardinality(call.result) = 1

C6_Witness ==
    /\ call.op = "getBookingByToken" /\ ~call.fault
    /\ call.token = "tok-2" /\ call.result = {} /\ ~call.threw
    /\ \E r \in bookings : r.client_access_token = "tok-1"
    /\ Cardinality(bookings) = MaxBookings

\* C7: getMessages(b) returns exactly the messages with booking_id b, each
\* once, in non-decreasing created_at order; right after a sendMessage that
\* returned, getMessages(b) ends with the message just sent.
C7_MessagesOrdered ==
    /\ (call.op = "getMessages" /\ ~call.fault) =>
          /\ ~call.threw
          /\ {call.result[i] : i \in DOMAIN call.result} =
                 {m \in messages : m.booking_id = call.booking}
          /\ Len(call.result) = Cardinality({m \in messages : m.booking_id = call.booking})
          /\ \A i, j \in DOMAIN call.result :
                 i < j => call.result[i].created_at <= call.result[j].created_at
    /\ (call.op = "sendMessage" /\ ~call.threw) =>
          /\ \A row \in call.result :
                 /\ row.booking_id = call.booking
                 /\ row.sender_role = call.role
                 /\ row.content = call.content
          /\ \A data \in OrderByCreatedAt(MessagesOf(call.booking)) :
                 data # <<>> /\ call.result = {data[Len(data)]}

C7_Witness ==
    /\ call.op = "getMessages" /\ ~call.fault
    /\ Len(call.result) >= 2
    /\ \E m \in messages : m.booking_id # call.booking

\* The events the backend emitted for channel x's booking since x subscribed.
EmittedFor(x) ==
    SelectSeq(SubSeq(feed, sub[x].since + 1, Len(feed)),
              LAMBDA row : sub[x].filter = "booking_id=eq." \o row.booking_id)

IsPrefix(a, b) == Len(a) <= Len(b) /\ SubSeq(b, 1, Len(a)) = a

\* C8: the teardown may be called repeatedly; the callback receives the
\* messages inserted for its booking while subscribed, each once and in the
\* order emitted, none of another booking, and nothing after the first
\* teardown call.
C8_FeedUntilTeardown ==
    \A x \in Subscribers :
        /\ IsPrefix(sub[x].log, EmittedFor(x))
        /\ \A i \in DOMAIN sub[x].log :
               sub[x].filter = "booking_id=eq." \o sub[x].log[i].booking_id
        /\ sub[x].teardowns >= 1 =>
               sub[x].state = "removed" /\ sub[x].log = sub[x].logAtTeardown

C8_Witness ==
    \E x \in Subscribers :
        /\ sub[x].teardowns = 2
        /\ Len(sub[x].log) >= 1
        /\ Len(EmittedFor(x)) > Len(sub[x].log)
        /\ \E m \in messages : sub[x].filter # "booking_id=eq." \o m.booking_id

AllowedChar(ch) == ch \in LowerCase \cup UpperCase \cup Digits \cup {"."}

\* C9: without a path the key uploaded under is <timestamp>-<name'>, name'
\* being the file name without the characters outside [A-Za-z0-9.], the
\* others kept in order ('My Photo #1.png' at T gives 'T-MyPhoto1.png');
\* a non-empty path is used unchanged.
C9_DefaultKey ==
    call.op = "uploadImage" =>
        /\ ~call.path.given =>
              call.fileName =
                  ToDecimal(call.now) \o <<"-">> \o SelectSeq(call.name, AllowedChar)
        /\ (~call.path.given /\ call.name = ExampleName /\ call.now = 1705) =>
              call.fileName = <<"1", "7", "0", "5", "-", "M", "y", "P", "h", "o",
                                "t", "o", "1", ".", "p", "n", "g">>
        /\ (call.path.given /\ call.path.value # <<>>) =>
              call.fileName = call.path.value
        /\ ~call.threw =>
              /\ [bucket |-> call.bucket, key |-> call.fileName] \in objects
              /\ \A r \in call.result : r.path = call.fileName

C9_Witness ==
    /\ call.op = "uploadImage" /\ ~call.threw
    /\ ~call.path.given
    /\ call.name = ExampleName
    /\ call.now = 1705

IsSuffix(a, b) == Len(a) <= Len(b) /\ SubSeq(b, Len(b) - Len(a) + 1, Len(b)) = a

\* C10: a submission with n selected files whose uploads and insert all
\* succeed inserts exactly one bookings row, with status 'pending',
\* is_custom true and reference_photos the n public URLs of the uploaded
\* files in selection order, and ends with the form hidden and the success
\* message shown.
C10_SuccessfulSubmission ==
    \A k \in Submissions :
        (subm[k].pc = "done" /\ subm[k].failures = 0 /\ ~subm[k].insertError) =>
            /\ Cardinality(subm[k].inserted) = 1
            /\ \A id \in subm[k].inserted :
                 /\ Cardinality({b \in bookings : b.id = id}) = 1
                 /\ \A b \in {x \in bookings : x.id = id} :
                      /\ b.status = "pending"
                      /\ b.is_custom = TRUE
                      /\ Len(b.reference_photos) = Len(subm[k].files)
                      /\ \A i \in DOMAIN b.reference_photos :
                           /\ b.reference_photos[i] =
                                  PublicUrl("reference-photos", subm[k].keys[i])
                           /\ [bucket |-> "reference-photos", key |-> subm[k].keys[i]]
                                  \in objects
                           /\ IsSuffix(<<"-">> \o SelectSeq(subm[k].files[i],
                                  LAMBDA ch : ch \in LowerCase \cup UpperCase \cup Digits),
                                  subm[k].keys[i])
            /\ "booking-form" \in page.hidden
            /\ "success-msg" \notin page.hidden

C10_Witness ==
    \E k \in Submissions :
        /\ subm[k].pc = "done" /\ subm[k].failures = 0 /\ ~subm[k].insertError
        /\ subm[k].files = <<PhotoB, PhotoA>>
        /\ Cardinality(bookings) = 1

\* C11: in a submission, if the upload of any selected file fails the
\* insert is never reached: that submission inserts no booking row.
C11_NoInsertAfterFailedUpload ==
    \A k \in Submissions :
        subm[k].failures > 0 => subm[k].pc # "done" \/ subm[k].inserted = {}

\* C12: a submission in which an upload or the insert failed ends with the
\* error shown to the user, the success message hidden and the form shown
\* with the entered data (stated for a submission running alone).
C12_FailureSurfaced ==
    \A k \in Submissions :
        (/\ subm[k].pc = "done"
         /\ subm[k].failures > 0 \/ subm[k].insertError
         /\ \A j \in Submissions \ {k} : subm[j].pc = "idle") =>
            /\ page.alerts # <<>>
            /\ "success-msg" \in page.hidden
            /\ "booking-form" \notin page.hidden
            /\ page.fields = subm[k].formData

InFlight(k) == subm[k].pc \in {"upload", "insert"}

\* C16: while a submission is in flight the form is hidden and the pending
\* indicator is shown, so no second submission starts; after a success the
\* form stays hidden and the success message shown; a page instance inserts
\* at most one bookings row.
C16_SingleSubmission ==
    /\ \A k \in Submissions :
          InFlight(k) =>
              /\ "booking-form" \in page.hidden
              /\ "loading-msg" \notin page.hidden
              /\ \A j \in Submissions \ {k} : ~InFlight(j)
    /\ \A k \in Submissions :
          (subm[k].pc = "done" /\ ~subm[k].insertError) =>
              "booking-form" \in page.hidden /\ "success-msg" \notin page.hidden
    /\ Cardinality(bookings) <= 1

\* C14: currentStep stays in 1..4, exactly one form step is shown and it is
\* step currentStep; a click on Next adds exactly one and a click on Back
\* takes exactly one away.
C14_LinearSteps ==
    /\ [](/\ page.currentStep \in 1..4
          /\ (1..4) \ page.hiddenSteps = {page.currentStep})
    /\ [][/\ clickNext => page'.currentStep = page.currentStep + 1
          /\ clickPrev => page'.currentStep = page.currentStep - 1
          /\ page'.currentStep # page.currentStep =>
                 \/ page'.currentStep = page.currentStep + 1
                 \/ page'.currentStep = page.currentStep - 1]_vars

C14_Witness ==
    /\ page.currentStep = 2
    /\ page.hiddenSteps = {1, 3, 4}
    /\ page.files # <<>>

BothTokens(jar) ==
    /\ AccessCookie \in DOMAIN jar /\ jar[AccessCookie] # ""
    /\ RefreshCookie \in DOMAIN jar /\ jar[RefreshCookie] # ""

\* C15: whatever the path, a request carrying both an access and a refresh
\* token has had the client's session set from them before the session
\* query and before next(); a request lacking either is never hydrated.
C15_HydrateBeforeGate ==
    \A r \in Requests :
        /\ req[r].pc \in {"gate", "done"} =>
               (req[r].hydrated <=> BothTokens(req[r].cookies))
        /\ req[r].pc \in {"idle", "setSession"} =>
               ~req[r].checked /\ req[r].nextCalls = 0 /\ req[r].result = "none"
        /\ ~BothTokens(req[r].cookies) => ~req[r].hydrated

C15_Witness ==
    /\ \E r \in Requests :
          /\ req[r].pc = "done" /\ req[r].hydrated /\ req[r].result = "next"
          /\ ~StartsWith(req[r].path, AdminPrefix)
    /\ \E r \in Requests :
          /\ req[r].pc = "done" /\ ~req[r].hydrated
          /\ AccessCookie \in DOMAIN req[r].cookies

Configured(v) == v # Undefined /\ v # ""

IsPlaceholder(h) == h.url = "https://placeholder.supabase.co" /\ h.key = "placeholder-key"

\* C13: in a browser context the handle never carries the elevated
\* credential; in a server context it carries the elevated credential when
\* one is configured and the restricted one otherwise; the placeholder
\* handle is built only when neither a URL nor any credential is configured.
C13_CredentialChoice ==
    handle.built =>
        /\ (~env.SSR /\ Configured(env.service)) => handle.key # env.service
        /\ (env.SSR /\ Configured(env.service)) => handle.key = env.service
        /\ (env.SSR /\ ~Configured(env.service)) => handle.key = env.anon
        /\ IsPlaceholder(handle) =>
              /\ ~Configured(env.url)
              /\ ~Configured(env.anon)
              /\ ~Configured(env.service)

\* C13 as amended: the placeholder is built exactly when the URL or the
\* credential of the context is not configured; otherwise the handle
\* carries the URL and, on a server, the elevated credential when one is
\* configured and the restricted one if not, in a browser the restricted one.
C13_CredentialChoiceAmended ==
    handle.built =>
        LET wanted == IF env.SSR /\ Configured(env.service) THEN env.service
                      ELSE env.anon
        IN /\ (~env.SSR /\ Configured(env.service)) => handle.key # env.service
           /\ IsPlaceholder(handle) <=> (~Configured(env.url) \/ ~Configured(wanted))
           /\ ~IsPlaceholder(handle) => handle.url = env.url /\ handle.key = wanted

C13_Witness ==
    /\ handle.built
    /\ ~env.SSR
    /\ Configured(env.url) /\ Configured(env.service) /\ Configured(env.anon)
    /\ handle.key = env.anon

====
